---- MODULE Spec2Model ----
(***************************************************************************)
(* Crucible of Fate: the pool record kept in the world settings, the       *)
(* GM-authoritative operations that change it, and the socket messages     *)
(* they emit.  Every async handler is a task: entering it runs the code up *)
(* to its first await, and each later step runs it from one await to the   *)
(* next.  Under Spec a handler runs to its end before another is entered   *)
(* (operations processed one at a time); under SpecAugment handlers        *)
(* overlap at their awaits.  SpecPanel is the GM's panel while users       *)
(* connect and disconnect, and SpecGate the players' side of a roll: the   *)
(* context menu entry on each client and the requests the GM receives.     *)
(* Under SpecOverlap the events the GM's process has received, of any      *)
(* kind, are handled with their handlers overlapping; SpecRitualOverlap    *)
(* and SpecAugmentOverlap are its cases of seed submissions on empty pools *)
(* and of augmentation requests on a single player die,                    *)
(* SpecTransferOverlap its case of dice transfers under override, and      *)
(* SpecSeedingOverlap the ritual with restarts among the submissions.      *)
(* SpecDialog is the seed dialog of each player's client across rituals.   *)
(***************************************************************************)
EXTENDS Integers, Sequences, FiniteSets, TLC

\* ---------------------------------------------------------------- bounds
NumUsers == 2      \* user accounts with the PLAYER role
MaxPool == 3       \* the dice in circulation: seeding stops at this many
MaxTime == 1       \* timestamps new Date() can return are 1..MaxTime
NumTasks == 2      \* handler invocations that can be in flight together
MaxEvents == 3     \* ritual events received while handlers are in flight
NumMsgs == 1       \* roll messages of the chat log

\* ------------------------------------------------------------- constants
DieSides == 6
Null == -1         \* null: lastSeededAt, an unresolved total

GM == 0
Users == 1..NumUsers
Procs == {GM} \cup Users          \* one client process per account
Msgs == 1..NumMsgs
Rolls == 1..(2 * NumUsers)   \* the rolls a session of two rolls per player posts
Tasks == 1..NumTasks

VARIABLES
  store,              \* the world settings of the module (game.settings)
  active,             \* users that are connected (user.active)
  owners,             \* users that own at least one actor
  requireCharacterOwnership,   \* the configuration setting
  plan,               \* the value each user enters in the seed dialog
  tasks,              \* the handler invocations in flight
  pending,            \* the events the GM's process receives, in order, and
                      \* whether the handler of each has been entered
  activeModals,       \* per player: the seed dialog of that player's client
  messages,           \* roll messages created so far (game.messages)
  playerRollHistory,  \* per process: user -> id of the last roll registered
  augmentedMessages,  \* per process: ids of the messages already augmented
  augmentPosts,       \* per message: augmentation results posted to the chat
  posted,             \* the chat message the latest action created
  outcome,            \* how the handler call ended that the latest action finished
  emitted             \* what the latest action put on the socket

vars == <<store, active, owners, requireCharacterOwnership, plan, tasks, pending,
          activeModals, messages, playerRollHistory, augmentedMessages, augmentPosts, posted,
          outcome, emitted>>

roster == <<active, owners, requireCharacterOwnership, plan>>
chat == <<messages, playerRollHistory>>

\* ------------------------------------------------------------ the record
Keys == <<"playerPoolCount", "gmPoolCount", "overrideEnabled", "seededPlayers",
          "lastSeededAt">>

\* the registered defaults
DefaultState ==
  [playerPoolCount |-> 0, gmPoolCount |-> 0, overrideEnabled |-> FALSE,
   seededPlayers |-> <<>>, lastSeededAt |-> Null]


\* { ...currentState, ...delta }
Merge(currentState, delta) ==
  [k \in DOMAIN currentState |->
     IF k \in DOMAIN delta THEN delta[k] ELSE currentState[k]]

Max(a, b) == IF a >= b THEN a ELSE b

\* users with the PLAYER role that are active and, if asked, own an actor
getActivePlayerCount(requireCharacter) ==
  Cardinality({u \in Users : (u \in active) /\ (requireCharacter => (u \in owners))})

\* a mutant of AutoBalance: the whole difference goes to the player pool,
\* without the floor at zero and without the GM pool taking the rest
AutoBalanceNoFloor(newState, activePlayerCount) ==
  [newState EXCEPT !.playerPoolCount =
     @ + (activePlayerCount - (newState.playerPoolCount + newState.gmPoolCount))]

\* the auto-balance of updateState: the player pool first, then the GM pool
AutoBalance(newState, activePlayerCount) ==
  LET totalDice == newState.playerPoolCount + newState.gmPoolCount
      difference == activePlayerCount - totalDice
      player == Max(0, newState.playerPoolCount + difference)
      newTotal == player + newState.gmPoolCount
  IN IF totalDice # activePlayerCount
       THEN [newState EXCEPT
               !.playerPoolCount = player,
               !.gmPoolCount = IF newTotal # activePlayerCount
                                 THEN activePlayerCount - player ELSE @]
       ELSE newState

\* a mutant of Validate: the balance is applied whatever overrideEnabled is
ValidateIgnoringOverride(newState, activePlayerCount) ==
  AutoBalance(newState, activePlayerCount)

\* updateState, lines 34-50: enforce the invariant if override is disabled
Validate(newState, activePlayerCount) ==
  IF ~newState.overrideEnabled
    THEN AutoBalance(newState, activePlayerCount)
    ELSE newState

\* the keys updateState writes, in the order of Object.entries(newState)
WrittenKeys(delta) ==
  SelectSeq(Keys, LAMBDA k : k # "overrideEnabled" \/ "overrideEnabled" \in DOMAIN delta)


\* ----------------------------------------------------- handler invocations
NoArg == [userId |-> GM, result |-> 0, direction |-> "", amount |-> 0, messageId |-> 0]

Idle ==
  [op |-> "", caller |-> GM, pc |-> "idle", arg |-> NoArg, state |-> DefaultState,
   updated |-> FALSE, merged |-> DefaultState, newState |-> DefaultState,
   keys |-> <<>>, roll |-> 0]

\* nothing ended; an outcome names the handler, the process it ran on, its
\* arguments, how it ended, and, if its updateState came to write, the
\* merged state { ...currentState, ...delta } that updateState validated
NoOutcome ==
  [op |-> "", caller |-> GM, arg |-> NoArg, result |-> "", updated |-> FALSE,
   merged |-> DefaultState]

NoPost == [messageId |-> 0, result |-> 0, newTotal |-> Null]

\* what a handler reads and writes, as an action finds it: the settings, the
\* handlers in flight, the process-local sets, and the outputs of the action
World ==
  [store |-> store, tasks |-> tasks, augmentedMessages |-> augmentedMessages,
   augmentPosts |-> augmentPosts, posted |-> NoPost, outcome |-> NoOutcome,
   emitted |-> <<>>]

\* the action leaves the world as w
Commit(w) ==
  /\ store' = w.store
  /\ tasks' = w.tasks
  /\ augmentedMessages' = w.augmentedMessages
  /\ augmentPosts' = w.augmentPosts
  /\ posted' = w.posted
  /\ outcome' = w.outcome
  /\ emitted' = w.emitted

getState(w) == w.store

isGM(c) == c = GM

\* a handler is entered on process c in slot t: its arguments and, where the
\* code reads it on entry, const state = CrucibleState.getState()
Begin(w, t, op, c, arg) ==
  [w EXCEPT !.tasks[t] =
     [Idle EXCEPT !.op = op, !.caller = c, !.arg = arg, !.state = getState(w)]]

\* the slot a new invocation takes: any time (handlers overlap at their
\* awaits) or, when serial, only while no other handler is in flight
Slot(serial) ==
  IF serial
    THEN IF \A t \in Tasks : tasks[t].pc = "idle" THEN {1} ELSE {}
    ELSE {t \in Tasks : /\ tasks[t].pc = "idle"
                        /\ \A s \in 1..(t - 1) : tasks[s].pc # "idle"}

\* socket envelopes
StateUpdate(state) == [type |-> "stateUpdate", state |-> state, activePlayers |-> 0]
SeedComplete(state) == [type |-> "seedComplete", state |-> state, activePlayers |-> 0]
\* a mutant of SeedStarted: the envelope carries the number of connected
\* players, whatever count it is given
SeedStartedConnected(n) ==
  [type |-> "seedStarted", state |-> DefaultState, activePlayers |-> Cardinality(active)]

SeedStarted(n) == [type |-> "seedStarted", state |-> DefaultState, activePlayers |-> n]

\* the call in slot t ends: nothing of it stays in flight
Finish(w, t, result, out) ==
  [w EXCEPT !.tasks[t] = Idle,
            !.outcome = [op |-> w.tasks[t].op, caller |-> w.tasks[t].caller,
                         arg |-> w.tasks[t].arg, result |-> result,
                         updated |-> w.tasks[t].updated,
                         merged |-> w.tasks[t].merged],
            !.emitted = w.emitted \o out]

\* the call in slot t is suspended at an await
Await(w, t, pc) == [w EXCEPT !.tasks[t].pc = pc]

\* a mutant of updateState: the role check is missing
updateStateUnchecked(w, t, delta) ==
  LET newState == Merge(getState(w), delta)
  IN [w EXCEPT !.tasks[t].updated = TRUE,
               !.tasks[t].merged = newState,
               !.tasks[t].newState = Validate(newState, getActivePlayerCount(FALSE)),
               !.tasks[t].keys = WrittenKeys(delta),
               !.tasks[t].pc = "write"]

\* CrucibleState.updateState(delta) called by the handler in slot t, up to
\* its first await game.settings.set: the role check, the merge, the
\* validation and the keys to write
updateState(w, t, delta) ==
  IF ~isGM(w.tasks[t].caller)
    THEN Finish(w, t, "AuthorityError", <<>>)
    ELSE LET currentState == getState(w)
             newState == Merge(currentState, delta)
             activePlayerCount == getActivePlayerCount(FALSE)
         IN [w EXCEPT !.tasks[t].updated = TRUE,
                      !.tasks[t].merged = newState,
                      !.tasks[t].newState = Validate(newState, activePlayerCount),
                      !.tasks[t].keys = WrittenKeys(delta),
                      !.tasks[t].pc = "write"]

\* ---------------------------------------------------- handlers, on entry

\* CruciblePanel._onToggleOverride
toggleOverride(w, t, c) ==
  LET w1 == Begin(w, t, "toggleOverride", c, NoArg)
      state == w1.tasks[t].state
  IN updateState(w1, t, [overrideEnabled |-> ~state.overrideEnabled])

\* CruciblePanel._onResetPools, up to await Dialog.confirm
resetPools(w, t, c) == Await(Begin(w, t, "resetPools", c, NoArg), t, "confirm")

\* the delta of MoveDiceModal._onSubmit
MoveDelta(state, direction, amount) ==
  IF direction = "playerToGm"
    THEN [playerPoolCount |-> state.playerPoolCount - amount,
          gmPoolCount |-> state.gmPoolCount + amount]
    ELSE [gmPoolCount |-> state.gmPoolCount - amount,
          playerPoolCount |-> state.playerPoolCount + amount]

\* a mutant of MoveSource: the insufficient-dice test looks at the target pool
MoveSourceSwapped(state, direction) ==
  IF direction = "playerToGm" THEN state.gmPoolCount ELSE state.playerPoolCount

\* the pool the amount is compared with
MoveSource(state, direction) ==
  IF direction = "playerToGm" THEN state.playerPoolCount ELSE state.gmPoolCount

\* MoveDiceModal._onSubmit
moveDice(w, t, c, direction, amount) ==
  LET w1 == Begin(w, t, "moveDice", c,
                  [NoArg EXCEPT !.direction = direction, !.amount = amount])
      state == w1.tasks[t].state
  IN IF amount < 1
       THEN Finish(w1, t, "ValidationError:invalidAmount", <<>>)
       ELSE IF MoveSource(state, direction) < amount
         THEN Finish(w1, t, "ValidationError:insufficientDice", <<>>)
         ELSE updateState(w1, t, MoveDelta(state, direction, amount))

\* CruciblePanel._onRollGmDie, up to await roll.roll()
rollGmDie(w, t, c) ==
  LET w1 == Begin(w, t, "rollGmDie", c, NoArg)
      state == w1.tasks[t].state
  IN IF state.gmPoolCount < 1
       THEN Finish(w1, t, "insufficientDice", <<>>)
       ELSE Await(w1, t, "roll")

\* SeedRitualManager.start / CrucibleSocket.startSeed
startSeed(w, t, c) ==
  LET w1 == Begin(w, t, "startSeed", c, NoArg)
  IN IF ~isGM(c)
       THEN Finish(w1, t, "AuthorityError", <<>>)
       ELSE updateState(w1, t, [seededPlayers |-> <<>>, lastSeededAt |-> Null])

\* state.seededPlayers.includes(userId)
Includes(seededPlayers, userId) ==
  \E i \in 1..Len(seededPlayers) : seededPlayers[i] = userId

\* a mutant of SeedDelta: 1-2 -> GM pool, 3-6 -> player pool
SeedDeltaOffByOne(state, userId, result, now) ==
  LET pool == IF result >= 1 /\ result <= 2
                THEN [gmPoolCount |-> state.gmPoolCount + 1]
                ELSE [playerPoolCount |-> state.playerPoolCount + 1]
  IN pool @@ [seededPlayers |-> Append(state.seededPlayers, userId),
              lastSeededAt |-> now]

\* the delta of processSeedResult: 1-3 -> GM pool, 4-6 -> player pool
SeedDelta(state, userId, result, now) ==
  LET pool == IF result >= 1 /\ result <= 3
                THEN [gmPoolCount |-> state.gmPoolCount + 1]
                ELSE [playerPoolCount |-> state.playerPoolCount + 1]
  IN pool @@ [seededPlayers |-> Append(state.seededPlayers, userId),
              lastSeededAt |-> now]

\* a mutant of AlreadySeeded: no submission is taken for a duplicate
AlreadySeededNever(state, userId) == FALSE

\* the duplicate check of processSeedResult
AlreadySeeded(state, userId) == Includes(state.seededPlayers, userId)

\* CrucibleSocket.processSeedResult(userId, result), at time now
processSeedResult(w, t, c, userId, result, now) ==
  LET w1 == Begin(w, t, "processSeedResult", c,
                  [NoArg EXCEPT !.userId = userId, !.result = result])
      state == w1.tasks[t].state
  IN IF ~isGM(c)
       THEN Finish(w1, t, "AuthorityError", <<>>)
       ELSE IF AlreadySeeded(state, userId)
         THEN Finish(w1, t, "alreadySeeded", <<>>)
         ELSE updateState(w1, t, SeedDelta(state, userId, result, now))

\* this.augmentedMessages.has(messageId) on process c
IsAugmented(w, c, messageId) == messageId \in w.augmentedMessages[c]

\* RollAugmentation.handleAugmentRequest(userId, messageId), up to
\* await roll.roll(); every userId of the model is a user of the game
handleAugmentRequest(w, t, c, userId, messageId) ==
  LET w1 == Begin(w, t, "handleAugmentRequest", c,
                  [NoArg EXCEPT !.userId = userId, !.messageId = messageId])
      state == w1.tasks[t].state
  IN IF ~isGM(c)
       THEN Finish(w1, t, "AuthorityError", <<>>)
       ELSE IF messageId \notin messages
         THEN Finish(w1, t, "MessageNotFound", <<>>)
         ELSE IF state.playerPoolCount < 1
           THEN Finish(w1, t, "insufficientDice", <<>>)
           ELSE IF IsAugmented(w1, c, messageId)
             THEN Finish(w1, t, "alreadyAugmented", <<>>)
             ELSE Await(w1, t, "roll")

\* CrucibleState.enforceInvariant
enforceInvariant(w, t, c) ==
  LET w1 == Begin(w, t, "enforceInvariant", c, NoArg)
      state == w1.tasks[t].state
      activePlayerCount == getActivePlayerCount(FALSE)
      totalDice == state.playerPoolCount + state.gmPoolCount
      difference == activePlayerCount - totalDice
      newPlayerPool == Max(0, state.playerPoolCount + difference)
      newGmPool == activePlayerCount - newPlayerPool
  IN IF state.overrideEnabled
       THEN Finish(w1, t, "ok", <<>>)
       ELSE IF totalDice # activePlayerCount
         THEN updateState(w1, t, [playerPoolCount |-> newPlayerPool,
                                  gmPoolCount |-> newGmPool])
         ELSE Finish(w1, t, "ok", <<>>)


\* ------------------------------------------- handlers, from await to await

\* the roll messages players create: their author and the total of their roll
MsgUser(m) == (((m - 1) \div 2) % NumUsers) + 1
MsgTotal(m) == IF m % 2 = 1 THEN 14 ELSE 0

\* what the flags and the flavor text of the message say (isAugmentableRoll,
\* lines 32-64): every fourth roll starting with the third is an attack or
\* damage roll, the others are skill checks and saving throws
MsgAugmentable(m) == m % 4 # 3

\* the confirmation dialog of _onResetPools is answered
confirmStep(w, t, confirmed) ==
  IF confirmed
    THEN updateState(w, t, [playerPoolCount |-> 0, gmPoolCount |-> 0])
    ELSE Finish(w, t, "declined", <<>>)

\* new Roll("1d6") has been rolled with total d; up to await ChatMessage.create
rollStep(w, t, d) == [Await(w, t, "chat") EXCEPT !.tasks[t].roll = d]

\* const newTotal = originalTotal ? originalTotal + result : null
NewTotal(originalTotal, result) ==
  IF originalTotal # Null /\ originalTotal # 0 THEN originalTotal + result ELSE Null

\* the chat message has been created; the pools are updated from the state
\* the handler read on entry, up to the first await of updateState
chatStep(w, t) ==
  LET task == w.tasks[t]
      state == task.state
      m == task.arg.messageId
      result == task.roll
      w1 == [w EXCEPT !.tasks[t].roll = 0]
  IN IF task.op = "handleAugmentRequest"
       THEN updateState(
              [w1 EXCEPT !.posted = [messageId |-> m, result |-> result,
                                     newTotal |-> NewTotal(MsgTotal(m), result)],
                         !.augmentPosts[m] = @ + 1],
              t, [playerPoolCount |-> state.playerPoolCount - 1,
                  gmPoolCount |-> state.gmPoolCount + 1])
       ELSE updateState(
              [w1 EXCEPT !.posted = [NoPost EXCEPT !.result = result]],
              t, [gmPoolCount |-> state.gmPoolCount - 1,
                  playerPoolCount |-> state.playerPoolCount + 1])

\* what a handler does once its updateState has returned newState = getState()
afterUpdate(w, t, newState) ==
  LET task == w.tasks[t]
  IN CASE task.op = "handleAugmentRequest" ->
            Finish([w EXCEPT !.augmentedMessages[task.caller] =
                               @ \cup {task.arg.messageId}],
                   t, "ok", <<StateUpdate(newState)>>)
       [] task.op = "processSeedResult" ->
            Finish(w, t, "ok",
                   IF Len(newState.seededPlayers) >=
                        getActivePlayerCount(requireCharacterOwnership)
                     THEN <<StateUpdate(newState), SeedComplete(newState)>>
                     ELSE <<StateUpdate(newState)>>)
       [] task.op = "startSeed" ->
            Finish(w, t, "ok",
                   <<SeedStarted(getActivePlayerCount(requireCharacterOwnership))>>)
       [] task.op = "enforceInvariant" ->
            Finish(w, t, "ok", <<>>)
       [] OTHER ->
            Finish(w, t, "ok", <<StateUpdate(newState)>>)

\* one await game.settings.set(key, value) of updateState completes; after
\* the last one updateState returns getState() and its caller goes on
writeStep(w, t) ==
  LET task == w.tasks[t]
      key == Head(task.keys)
      w1 == [w EXCEPT !.store[key] = task.newState[key],
                      !.tasks[t].keys = Tail(@)]
  IN IF Len(task.keys) > 1 THEN w1 ELSE afterUpdate(w1, t, getState(w1))

\* the handler in slot t goes on from its await to the next
Step(w, t, d, confirmed) ==
  CASE w.tasks[t].pc = "confirm" -> confirmStep(w, t, confirmed)
    [] w.tasks[t].pc = "roll" -> rollStep(w, t, d)
    [] w.tasks[t].pc = "chat" -> chatStep(w, t)
    [] w.tasks[t].pc = "write" -> writeStep(w, t)

\* the handler in slot t runs to its end with nothing in between
RECURSIVE Run(_, _, _, _)
Run(w, t, d, confirmed) ==
  IF w.tasks[t].pc = "idle" THEN w ELSE Run(Step(w, t, d, confirmed), t, d, confirmed)

\* an entered handler goes on to its end when operations are processed one
\* at a time, and stays at its first await when handlers overlap
Enter(serial, w, t, d, confirmed) ==
  Commit(IF serial THEN Run(w, t, d, confirmed) ELSE w)

\* ------------------------------------------- the player's side of a roll

\* RollAugmentation.isAugmentableRoll(message) on process c
isAugmentableRoll(w, c, m) ==
  IF IsAugmented(w, c, m) THEN FALSE ELSE MsgAugmentable(m)

\* a mutant of isMostRecentRoll: every roll passes for the most recent one
isMostRecentRollAlways(c, m, userId) == TRUE

\* RollAugmentation.isMostRecentRoll(message, userId) on process c; only
\* the players' rolls are followed, so the GM has no entry of its own
isMostRecentRoll(c, m, userId) ==
  IF userId \in Users THEN playerRollHistory[c][userId] = m ELSE FALSE

\* RollAugmentation.canAugment(message) on process c, where game.user is c
canAugment(w, c, m) ==
  IF isGM(c) THEN FALSE
  ELSE IF MsgUser(m) # c THEN FALSE
  ELSE IF ~isAugmentableRoll(w, c, m) THEN FALSE
  ELSE IF getState(w).playerPoolCount < 1 THEN FALSE
  ELSE IF ~isMostRecentRoll(c, m, c) THEN FALSE
  ELSE TRUE

\* the condition of the context menu entry is evaluated for message m
evalCanAugment(w, t, c, m) ==
  LET w1 == Begin(w, t, "canAugment", c, [NoArg EXCEPT !.messageId = m])
  IN IF m \notin messages
       THEN Finish(w1, t, "false", <<>>)
       ELSE Finish(w1, t, IF canAugment(w1, c, m) THEN "true" ELSE "false", <<>>)

\* the requestAugment envelope; its payload is the outcome's caller and arg
RequestAugment == [type |-> "requestAugment", state |-> DefaultState, activePlayers |-> 0]

\* CrucibleSocket.requestAugment(messageId) on process c
requestAugment(w, t, c) ==
  IF isGM(c)
    THEN Finish(w, t, "GmCannotRequest", <<>>)
    ELSE Finish(w, t, "requested", <<RequestAugment>>)

\* RollAugmentation.processAugment(messageId) on process c
processAugment(w, t, c, m) ==
  LET w1 == Begin(w, t, "processAugment", c, [NoArg EXCEPT !.messageId = m])
      state == getState(w1)
  IN IF m \notin messages
       THEN Finish(w1, t, "MessageNotFound", <<>>)
       ELSE IF ~canAugment(w1, c, m)
         THEN IF state.playerPoolCount < 1
                THEN Finish(w1, t, "insufficientDice", <<>>)
              ELSE IF ~isAugmentableRoll(w1, c, m)
                THEN Finish(w1, t, "invalidRoll", <<>>)
              ELSE IF IsAugmented(w1, c, m)
                THEN Finish(w1, t, "alreadyAugmented", <<>>)
              ELSE IF ~isMostRecentRoll(c, m, c)
                THEN Finish(w1, t, "notMostRecent", <<>>)
              ELSE Finish(w1, t, "invalidRoll", <<>>)
         ELSE requestAugment(w1, t, c)

\* ----------------------------------------------------------------- actions
Directions == {"playerToGm", "gmToPlayer"}
Amounts == 0..(MaxPool + 1)
SeedResults == {0, 1, 3, 4, DieSides, DieSides + 1}
DieResults == 1..DieSides
Times == 1..MaxTime

ToggleOverride(serial, c) ==
  /\ \E t \in Slot(serial) : Enter(serial, toggleOverride(World, t, c), t, 1, TRUE)
  /\ UNCHANGED <<roster, chat, pending, activeModals>>

ResetPools(serial, c, confirmed) ==
  /\ \E t \in Slot(serial) : Enter(serial, resetPools(World, t, c), t, 1, confirmed)
  /\ UNCHANGED <<roster, chat, pending, activeModals>>

MoveDice(serial, c, direction, amount) ==
  /\ \E t \in Slot(serial) :
       Enter(serial, moveDice(World, t, c, direction, amount), t, 1, TRUE)
  /\ UNCHANGED <<roster, chat, pending, activeModals>>

RollGmDie(serial, c, d) ==
  /\ \E t \in Slot(serial) : Enter(serial, rollGmDie(World, t, c), t, d, TRUE)
  /\ UNCHANGED <<roster, chat, pending, activeModals>>

StartSeed(serial, c) ==
  /\ \E t \in Slot(serial) : Enter(serial, startSeed(World, t, c), t, 1, TRUE)
  /\ UNCHANGED <<roster, chat, pending, activeModals>>

\* a submission is taken up as long as it leaves no more than MaxPool dice
\* in circulation
ProcessSeedResult(serial, c, userId, result, now) ==
  /\ \E t \in Slot(serial) :
       Enter(serial, processSeedResult(World, t, c, userId, result, now), t, 1, TRUE)
  /\ store'.playerPoolCount + store'.gmPoolCount <= MaxPool
  /\ UNCHANGED <<roster, chat, pending, activeModals>>

HandleAugmentRequest(serial, c, userId, messageId, d) ==
  /\ \E t \in Slot(serial) :
       Enter(serial, handleAugmentRequest(World, t, c, userId, messageId), t, d, TRUE)
  /\ UNCHANGED <<roster, chat, pending, activeModals>>

EnforceInvariant(serial, c) ==
  /\ \E t \in Slot(serial) : Enter(serial, enforceInvariant(World, t, c), t, 1, TRUE)
  /\ UNCHANGED <<roster, chat, pending, activeModals>>

\* a handler in flight goes on from its await
Resume(t, d, confirmed) ==
  /\ tasks[t].pc # "idle"
  /\ Commit(Step(World, t, d, confirmed))
  /\ UNCHANGED <<roster, chat, pending, activeModals>>

\* the createChatMessage hook, on every process: registerRoll(message)
CreateChatMessage(m) ==
  /\ m \notin messages
  /\ \A k \in 1..(m - 1) : k \in messages
  /\ messages' = messages \cup {m}
  /\ playerRollHistory' =
       [p \in Procs |-> [playerRollHistory[p] EXCEPT ![MsgUser(m)] = m]]
  /\ Commit(World)
  /\ UNCHANGED <<roster, pending, activeModals>>

\* the context menu of message m is opened on process c
CanAugment(serial, c, m) ==
  /\ \E t \in Slot(serial) : Commit(evalCanAugment(World, t, c, m))
  /\ UNCHANGED <<roster, chat, pending, activeModals>>

\* the context menu entry of message m is clicked on process c
ProcessAugment(serial, c, m) ==
  /\ \E t \in Slot(serial) : Commit(processAugment(World, t, c, m))
  /\ UNCHANGED <<roster, chat, pending, activeModals>>

\* ------------------------------------------------------ the specifications

\* the rosters: users are interchangeable, so the connected ones and the
\* owners are taken as initial segments of the user list
Segments == {1..k : k \in 0..NumUsers}

\* the settings hold their registered defaults; the roster is any (who owns
\* an actor is read only when requireCharacterOwnership is set)
Init ==
  /\ store = DefaultState
  /\ active \in Segments
  /\ requireCharacterOwnership \in BOOLEAN
  /\ owners \in IF requireCharacterOwnership THEN Segments ELSE {Users}
  /\ plan = [u \in Users |-> 0]
  /\ tasks = [t \in Tasks |-> Idle]
  /\ pending = <<>>
  /\ activeModals = [u \in Users |-> "none"]
  /\ messages = {}
  /\ playerRollHistory = [p \in Procs |-> [u \in Users |-> 0]]
  /\ augmentedMessages = [p \in Procs |-> {}]
  /\ augmentPosts = [m \in Msgs |-> 0]
  /\ posted = NoPost
  /\ outcome = NoOutcome
  /\ emitted = <<>>

\* a handler is invoked on the GM's process
Invoke(serial, c) ==
  \/ ToggleOverride(serial, c)
  \/ \E confirmed \in BOOLEAN : ResetPools(serial, c, confirmed)
  \/ \E direction \in Directions, amount \in Amounts :
       MoveDice(serial, c, direction, amount)
  \/ \E d \in DieResults : RollGmDie(serial, c, d)
  \/ StartSeed(serial, c)
  \/ \E userId \in Users, result \in SeedResults, now \in Times :
       ProcessSeedResult(serial, c, userId, result, now)
  \/ \E userId \in Users, messageId \in Msgs, d \in DieResults :
       HandleAugmentRequest(serial, c, userId, messageId, d)
  \/ EnforceInvariant(serial, c)

Post == \E m \in Msgs : CreateChatMessage(m)

\* the GM's operations, processed one at a time
Next == Invoke(TRUE, GM) \/ Post

Spec == Init /\ [][Next]_vars


\* any process invokes the operations, one at a time
NextAnyCaller == (\E c \in Procs : Invoke(TRUE, c)) \/ Post

\* as Init, with every user connected and the ownership setting off
InitAnyCaller == Init /\ ~requireCharacterOwnership /\ active = Users

SpecAnyCaller == InitAnyCaller /\ [][NextAnyCaller]_vars

\* a seeding ritual on empty pools: every user has a value in mind, override
\* is on or off, and the GM starts the ritual and processes the submissions
InitSeed ==
  /\ store \in {[DefaultState EXCEPT !.overrideEnabled = o] : o \in BOOLEAN}
  /\ active \in Segments
  /\ requireCharacterOwnership \in BOOLEAN
  /\ owners \in IF requireCharacterOwnership THEN Segments ELSE {Users}
  /\ plan \in [Users -> DieResults]
  /\ tasks = [t \in Tasks |-> Idle]
  /\ pending = <<>>
  /\ activeModals = [u \in Users |-> "none"]
  /\ messages = {}
  /\ playerRollHistory = [p \in Procs |-> [u \in Users |-> 0]]
  /\ augmentedMessages = [p \in Procs |-> {}]
  /\ augmentPosts = [m \in Msgs |-> 0]
  /\ posted = NoPost
  /\ outcome = NoOutcome
  /\ emitted = <<>>

RitualStart ==
  /\ store.playerPoolCount = 0 /\ store.gmPoolCount = 0
  /\ StartSeed(TRUE, GM)

\* the client of a connected user submits that user's value
RitualSubmit(userId, now) == ProcessSeedResult(TRUE, GM, userId, plan[userId], now)

NextSeed == RitualStart \/ \E userId \in active, now \in Times : RitualSubmit(userId, now)

SpecSeed == InitSeed /\ [][NextSeed]_vars

\* augmentation requests overlapping at their awaits, on any pools the
\* settings may hold
InitAugment ==
  /\ store \in {[DefaultState EXCEPT !.playerPoolCount = p, !.gmPoolCount = g,
                                     !.overrideEnabled = o] :
                  p \in 0..MaxPool, g \in 0..MaxPool, o \in BOOLEAN}
  /\ store.playerPoolCount + store.gmPoolCount <= MaxPool
  /\ active \in Segments
  /\ owners = Users
  /\ requireCharacterOwnership = FALSE
  /\ plan = [u \in Users |-> 0]
  /\ tasks = [t \in Tasks |-> Idle]
  /\ pending = <<>>
  /\ activeModals = [u \in Users |-> "none"]
  /\ messages = {}
  /\ playerRollHistory = [p \in Procs |-> [u \in Users |-> 0]]
  /\ augmentedMessages = [p \in Procs |-> {}]
  /\ augmentPosts = [m \in Msgs |-> 0]
  /\ posted = NoPost
  /\ outcome = NoOutcome
  /\ emitted = <<>>

AugmentRequested ==
  \E userId \in Users, messageId \in Msgs :
    HandleAugmentRequest(FALSE, GM, userId, messageId, 1)

AugmentResumed == \E t \in Tasks, d \in DieResults : Resume(t, d, TRUE)

NextAugment == AugmentRequested \/ AugmentResumed \/ Post

SpecAugment == InitAugment /\ [][NextAugment]_vars

\* a user's client connects or disconnects: user.active changes, and no code
\* of the module runs (no hook is registered for it); the rosters stay
\* initial segments of the user list
UserConnects ==
  /\ Cardinality(active) < NumUsers
  /\ active' = 1..(Cardinality(active) + 1)
  /\ Commit(World)
  /\ UNCHANGED <<owners, requireCharacterOwnership, plan, chat, pending, activeModals>>

UserDisconnects ==
  /\ Cardinality(active) > 0
  /\ active' = 1..(Cardinality(active) - 1)
  /\ Commit(World)
  /\ UNCHANGED <<owners, requireCharacterOwnership, plan, chat, pending, activeModals>>

\* the GM's panel: the pool operations, one at a time, while users come and go
NextPanel ==
  \/ ToggleOverride(TRUE, GM)
  \/ \E confirmed \in BOOLEAN : ResetPools(TRUE, GM, confirmed)
  \/ \E direction \in Directions, amount \in Amounts :
       MoveDice(TRUE, GM, direction, amount)
  \/ \E d \in DieResults : RollGmDie(TRUE, GM, d)
  \/ EnforceInvariant(TRUE, GM)
  \/ UserConnects
  \/ UserDisconnects

SpecPanel == Init /\ [][NextPanel]_vars

\* the events the GM's process takes up: the clicks on the GM's panel, the
\* socket messages of the players, and the rebalancing of the ready hook
Events ==
  {[op |-> o, arg |-> NoArg, entered |-> FALSE] :
     o \in {"toggleOverride", "resetPools", "rollGmDie", "startSeed",
            "enforceInvariant"}}
  \cup {[op |-> "moveDice", arg |-> [NoArg EXCEPT !.direction = d, !.amount = 1],
         entered |-> FALSE] : d \in Directions}
  \cup {[op |-> "seedResult", arg |-> [NoArg EXCEPT !.userId = u, !.result = r],
         entered |-> FALSE] : u \in Users, r \in {1, DieSides}}
  \cup {[op |-> "requestAugment",
         arg |-> [NoArg EXCEPT !.userId = MsgUser(m), !.messageId = m],
         entered |-> FALSE] : m \in {1, 2}}

\* the handler the GM's process enters for event e, up to its first await
handle(w, t, e) ==
  CASE e.op = "toggleOverride" -> toggleOverride(w, t, GM)
    [] e.op = "resetPools" -> resetPools(w, t, GM)
    [] e.op = "moveDice" -> moveDice(w, t, GM, e.arg.direction, e.arg.amount)
    [] e.op = "rollGmDie" -> rollGmDie(w, t, GM)
    [] e.op = "startSeed" -> startSeed(w, t, GM)
    [] e.op = "seedResult" ->
         processSeedResult(w, t, GM, e.arg.userId, e.arg.result, 1)
    [] e.op = "requestAugment" ->
         handleAugmentRequest(w, t, GM, e.arg.userId, e.arg.messageId)
    [] e.op = "enforceInvariant" -> enforceInvariant(w, t, GM)

\* the GM's process with its handlers overlapping at their awaits.  Up to
\* NumTasks events are on their way; the settings hold any record the
\* operations and the roster changes lead to (with at most MaxPool dice in
\* the pools), the first player's two rolls have been posted, and the roster
\* is any
InitOverlap ==
  /\ store \in {[playerPoolCount |-> p, gmPoolCount |-> g, overrideEnabled |-> o,
                 seededPlayers |-> s,
                 lastSeededAt |-> IF s = <<>> THEN Null ELSE 1] :
                  p \in 0..MaxPool, g \in 0..MaxPool, o \in BOOLEAN,
                  s \in {<<>>, <<1>>}}
  /\ store.playerPoolCount + store.gmPoolCount <= MaxPool
  /\ active \in Segments
  /\ owners = Users
  /\ requireCharacterOwnership = FALSE
  /\ plan = [u \in Users |-> 0]
  /\ tasks = [t \in Tasks |-> Idle]
  /\ pending \in UNION {[1..n -> Events] : n \in 0..NumTasks}
  /\ activeModals = [u \in Users |-> "none"]
  /\ messages = {1, 2}
  /\ playerRollHistory =
       [p \in Procs |-> [u \in Users |-> IF u = MsgUser(2) THEN 2 ELSE 0]]
  /\ augmentedMessages = [p \in Procs |-> {}]
  /\ augmentPosts = [m \in Rolls |-> 0]
  /\ posted = NoPost
  /\ outcome = NoOutcome
  /\ emitted = <<>>

\* the next event reaches its handler, whatever else is in flight
Delivered ==
  \E i \in 1..Len(pending) :
    /\ ~pending[i].entered
    /\ \A j \in 1..(i - 1) : pending[j].entered
    /\ \E t \in Slot(FALSE) : Commit(handle(World, t, pending[i]))
    /\ pending' = [pending EXCEPT ![i].entered = TRUE]
    /\ UNCHANGED <<roster, chat, activeModals>>

\* a suspended handler goes on by one step (the die that is drawn does not
\* touch the pools: it is taken as 1)
Overlapped == \E t \in Tasks : Resume(t, 1, TRUE)

NextOverlap == Delivered \/ Overlapped

SpecOverlap == InitOverlap /\ [][NextOverlap]_vars

\* the seed ritual with its submissions overlapping: the pools are empty,
\* nobody has seeded, and NumTasks seedResult messages have been received
InitRitualOverlap ==
  /\ InitOverlap
  /\ store.playerPoolCount = 0
  /\ store.gmPoolCount = 0
  /\ store.seededPlayers = <<>>
  /\ Len(pending) = NumTasks
  /\ \A i \in 1..Len(pending) : pending[i].op = "seedResult"

SpecRitualOverlap == InitRitualOverlap /\ [][NextOverlap]_vars

\* the handlers of the events run one after the other, each to its end
RECURSIVE Serially(_, _)
Serially(w, events) ==
  IF events = <<>>
    THEN w
    ELSE Serially(Run(handle(w, 1, Head(events)), 1, 1, TRUE), Tail(events))

\* augmentation with nothing else running: override is on, one die is in
\* the player pool, and requestAugment messages for distinct rolls have
\* been received
InitAugmentOverlap ==
  /\ InitOverlap
  /\ store.overrideEnabled
  /\ store.playerPoolCount = 1
  /\ store.seededPlayers = <<>>
  /\ \A i \in 1..Len(pending) : pending[i].op = "requestAugment"
  /\ \A i, j \in 1..Len(pending) :
       i # j => pending[i].arg.messageId # pending[j].arg.messageId

SpecAugmentOverlap == InitAugmentOverlap /\ [][NextOverlap]_vars

\* transfers with nothing else running: override is on, NumUsers dice are
\* in the pools, and moveDice, Roll GM Die and requestAugment events have
\* been received
InitTransferOverlap ==
  /\ InitOverlap
  /\ store.overrideEnabled
  /\ store.playerPoolCount + store.gmPoolCount = NumUsers
  /\ store.seededPlayers = <<>>
  /\ \A i \in 1..Len(pending) :
       pending[i].op \in {"moveDice", "rollGmDie", "requestAugment"}

SpecTransferOverlap == InitTransferOverlap /\ [][NextOverlap]_vars

\* the seed ritual with restarts in the mix: the pools are empty, nobody or
\* the first player has seeded, and up to MaxEvents startSeed and seedResult
\* events have been received; at most NumTasks of their handlers are in
\* flight together, the next one is entered when a slot is free
InitSeedingOverlap ==
  /\ store \in {[DefaultState EXCEPT !.overrideEnabled = o, !.seededPlayers = s,
                                     !.lastSeededAt = IF s = <<>> THEN Null ELSE 1] :
                  o \in BOOLEAN, s \in {<<>>, <<1>>}}
  /\ active \in Segments
  /\ owners = Users
  /\ requireCharacterOwnership = FALSE
  /\ plan = [u \in Users |-> 0]
  /\ tasks = [t \in Tasks |-> Idle]
  /\ pending \in UNION {[1..n -> {e \in Events : e.op \in {"startSeed", "seedResult"}}] :
                          n \in 0..MaxEvents}
  /\ activeModals = [u \in Users |-> "none"]
  /\ messages = {}
  /\ playerRollHistory = [p \in Procs |-> [u \in Users |-> 0]]
  /\ augmentedMessages = [p \in Procs |-> {}]
  /\ augmentPosts = [m \in Rolls |-> 0]
  /\ posted = NoPost
  /\ outcome = NoOutcome
  /\ emitted = <<>>

SpecSeedingOverlap == InitSeedingOverlap /\ [][NextOverlap]_vars

\* SeedRitualManager.openForPlayer(userId) on the player's client, where
\* modal is the entry of activeModals: "none" without one, "open" for a
\* dialog showing its controls, "waiting" for one that has submitted
openForPlayer(modal) == IF modal # "none" THEN modal ELSE "open"

\* the GM invokes the ritual, and the client of every connected player
\* takes the seedStarted broadcast
RitualRestarted ==
  /\ \E t \in Slot(TRUE) : Commit(Run(startSeed(World, t, GM), t, 1, TRUE))
  /\ activeModals' =
       [u \in Users |->
          IF u \in active THEN openForPlayer(activeModals[u]) ELSE activeModals[u]]
  /\ UNCHANGED <<roster, chat, pending>>

\* a connected player submits the value of the dialog (SeedModal._onSubmit),
\* the GM's process handles the seedResult, and if it broadcasts
\* seedComplete every client closes its dialogs (SeedRitualManager.complete);
\* a submission is taken up as long as it leaves no more than MaxPool dice
\* in circulation
SeedSubmitted(userId) ==
  /\ userId \in active
  /\ activeModals[userId] = "open"
  /\ plan[userId] >= 1 /\ plan[userId] <= 6
  /\ \E t \in Slot(TRUE) :
       LET w == Run(processSeedResult(World, t, GM, userId, plan[userId], 1),
                    t, 1, TRUE)
       IN /\ Commit(w)
          /\ activeModals' =
               IF \E i \in 1..Len(w.emitted) : w.emitted[i].type = "seedComplete"
                 THEN [u \in Users |-> "none"]
                 ELSE [activeModals EXCEPT ![userId] = "waiting"]
  /\ store'.playerPoolCount + store'.gmPoolCount <= MaxPool
  /\ UNCHANGED <<roster, chat, pending>>

NextDialog == RitualRestarted \/ \E userId \in Users : SeedSubmitted(userId)

\* the seed ritual with the players' dialogs: the GM starts and restarts it,
\* and the players submit what they have entered
SpecDialog == InitSeed /\ [][NextDialog]_vars

\* the players at the table: everyone is connected, rolls are posted, each
\* client evaluates and clicks the context menu entry, and the GM's process
\* handles the requestAugment messages it receives, one at a time; a socket
\* message carries whatever payload its sender put in it
InitGate ==
  /\ store \in {[DefaultState EXCEPT !.playerPoolCount = p, !.gmPoolCount = g,
                                     !.overrideEnabled = o] :
                  p \in 0..MaxPool, g \in 0..MaxPool, o \in BOOLEAN}
  /\ store.playerPoolCount + store.gmPoolCount <= MaxPool
  /\ active = Users
  /\ owners = Users
  /\ requireCharacterOwnership = FALSE
  /\ plan = [u \in Users |-> 0]
  /\ tasks = [t \in Tasks |-> Idle]
  /\ pending = <<>>
  /\ activeModals = [u \in Users |-> "none"]
  /\ messages = {}
  /\ playerRollHistory = [p \in Procs |-> [u \in Users |-> 0]]
  /\ augmentedMessages = [p \in Procs |-> {}]
  /\ augmentPosts = [m \in Rolls |-> 0]
  /\ posted = NoPost
  /\ outcome = NoOutcome
  /\ emitted = <<>>

PostRoll == \E m \in Rolls : CreateChatMessage(m)

MenuOpened == \E c \in Procs, m \in Rolls : CanAugment(TRUE, c, m)

MenuClicked == \E c \in Procs, m \in Rolls : ProcessAugment(TRUE, c, m)

RequestReceived ==
  \E userId \in Users, messageId \in Rolls, d \in DieResults :
    HandleAugmentRequest(TRUE, GM, userId, messageId, d)

NextGate == PostRoll \/ MenuOpened \/ MenuClicked \/ RequestReceived

SpecGate == InitGate /\ [][NextGate]_vars

\* ------------------------------------------------------------------ claims
playerPoolCount == store.playerPoolCount
gmPoolCount == store.gmPoolCount

EmittedTypes == {emitted[i].type : i \in 1..Len(emitted)}

\* the handler call the latest action finished has committed an update
Committed == outcome.updated /\ outcome.result = "ok"

\* the active player count of the configuration: connected players and, when
\* requireCharacterOwnership is set, only those of them owning an actor
activePlayerCount == getActivePlayerCount(requireCharacterOwnership)

\* C1: with a fixed roster and operations processed one at a time, after
\* every update committed through updateState whose resulting
\* overrideEnabled is false, playerPoolCount + gmPoolCount equals the active
\* player count
C1_InvariantAfterUpdate ==
  (Committed /\ ~store.overrideEnabled) =>
     playerPoolCount + gmPoolCount = activePlayerCount

\* C2: for a given message id at most one handleAugmentRequest succeeds,
\* also when two requests for it are in flight together: the second one
\* draws no die and posts no result
C2_AugmentationExclusive == \A m \in Msgs : augmentPosts[m] <= 1

\* C3: rebalancing (p, g) to T, in updateState and in enforceInvariant,
\* yields (p', g') with p' + g' = T, p' >= 0, g' >= 0 and
\* p' = max(0, p + (T - p - g)); g changes only when p alone cannot absorb
\* the difference, and the counts stay as they are when p + g = T
C3_RebalanceResult ==
  [][ (/\ outcome'.result = "ok"
       /\ outcome'.updated \/ outcome'.op = "enforceInvariant"
       /\ ~store'.overrideEnabled)
      => LET in == IF outcome'.op = "enforceInvariant" THEN store ELSE outcome'.merged
             p == in.playerPoolCount
             g == in.gmPoolCount
             T == getActivePlayerCount(FALSE)
         IN /\ store'.playerPoolCount + store'.gmPoolCount = T
            /\ store'.playerPoolCount >= 0 /\ store'.gmPoolCount >= 0
            /\ store'.playerPoolCount = Max(0, p + (T - p - g))
            /\ p + (T - p - g) >= 0 => store'.gmPoolCount = g
            /\ p + g = T => store'.playerPoolCount = p /\ store'.gmPoolCount = g
    ]_vars

\* a committed rebalance in which the player pool was floored at zero and the
\* GM pool took the rest
C3_Witness ==
  /\ Committed /\ ~store.overrideEnabled
  /\ getActivePlayerCount(FALSE) > 0
  /\ outcome.merged.gmPoolCount > getActivePlayerCount(FALSE)
  /\ outcome.merged.playerPoolCount > 0
  /\ playerPoolCount = 0 /\ gmPoolCount = getActivePlayerCount(FALSE)

\* C4: processSeedResult for a user id already in seededPlayers changes
\* nothing: the settings are as before, nothing is broadcast, and the call
\* ends with a warning, not an error
C4_IdempotentDuplicateSeed ==
  [][ (/\ outcome'.op = "processSeedResult" /\ outcome'.caller = GM
       /\ Includes(store.seededPlayers, outcome'.arg.userId))
      => /\ store' = store
         /\ emitted' = <<>>
         /\ outcome'.result = "alreadySeeded"
    ]_vars

\* a second submission of a seeded user has been processed
C4_Witness ==
  /\ outcome.op = "processSeedResult" /\ outcome.result = "alreadySeeded"
  /\ Includes(store.seededPlayers, outcome.arg.userId)
  /\ playerPoolCount + gmPoolCount > 0

\* C5: a moveDice whose amount exceeds the source pool at the time of the
\* request, or is below 1, is rejected with a validation error and leaves
\* playerPoolCount and gmPoolCount as they were
C5_NoOverTransfer ==
  [][ (/\ outcome'.op = "moveDice"
       /\ \/ outcome'.arg.amount < 1
          \/ outcome'.arg.amount >
               (IF outcome'.arg.direction = "playerToGm"
                  THEN store.playerPoolCount ELSE store.gmPoolCount))
      => /\ outcome'.result \in {"ValidationError:invalidAmount",
                                 "ValidationError:insufficientDice"}
         /\ store'.playerPoolCount = store.playerPoolCount
         /\ store'.gmPoolCount = store.gmPoolCount
    ]_vars

\* a move of more dice than the non-empty source pool holds was rejected
\* while the other pool held at least that many
C5_Witness ==
  /\ outcome.op = "moveDice"
  /\ outcome.result = "ValidationError:insufficientDice"
  /\ outcome.arg.direction = "playerToGm"
  /\ playerPoolCount > 0
  /\ gmPoolCount >= outcome.arg.amount

\* C6: when the merged state has overrideEnabled true, updateState does not
\* rebalance: the counts it persists are the merged counts
C6_OverrideSuspension ==
  (Committed /\ outcome.merged.overrideEnabled) =>
     /\ playerPoolCount = outcome.merged.playerPoolCount
     /\ gmPoolCount = outcome.merged.gmPoolCount

\* an update committed under override whose counts do not sum to the active
\* player count
C6_Witness ==
  /\ Committed /\ outcome.merged.overrideEnabled
  /\ outcome.op # "toggleOverride"
  /\ playerPoolCount + gmPoolCount # getActivePlayerCount(FALSE)
  /\ playerPoolCount + gmPoolCount # activePlayerCount

\* C7: the toggle that turns override off commits counts that sum to the
\* active player count, whatever they were; the toggle that turns it on
\* leaves both counts as they were
C7_ToggleRestores ==
  [][ (outcome'.op = "toggleOverride" /\ outcome'.result = "ok")
      => /\ store'.overrideEnabled = ~store.overrideEnabled
         /\ ~store'.overrideEnabled =>
              store'.playerPoolCount + store'.gmPoolCount = activePlayerCount
         /\ store'.overrideEnabled =>
              /\ store'.playerPoolCount = store.playerPoolCount
              /\ store'.gmPoolCount = store.gmPoolCount
    ]_vars

\* the operations C8 names (updateState is the one they all call); a reset
\* the user declines in the dialog is no reset
NamedOps ==
  {"startSeed", "processSeedResult", "handleAugmentRequest", "moveDice",
   "toggleOverride", "resetPools"}

NonGmCall ==
  /\ outcome'.caller # GM
  /\ outcome'.op \in NamedOps
  /\ outcome'.result # "declined"

\* C8, as stated: every mutating operation invoked on a non-GM process
\* fails with an authority error and writes nothing
C8_NonGmAuthorityError ==
  [][ NonGmCall => outcome'.result = "AuthorityError" /\ store' = store ]_vars

\* C8, amended: every mutating operation invoked on a non-GM process writes
\* nothing and fails, with an authority error, except that moveDice fails
\* with its validation error when the amount is below 1 or above the source
\* pool; every write to the settings is made on the GM's process
C8_SingleWriter ==
  [][ /\ NonGmCall =>
           /\ store' = store
           /\ IF /\ outcome'.op = "moveDice"
                 /\ \/ outcome'.arg.amount < 1
                    \/ outcome'.arg.amount >
                         (IF outcome'.arg.direction = "playerToGm"
                            THEN store.playerPoolCount ELSE store.gmPoolCount)
                THEN outcome'.result \in {"ValidationError:invalidAmount",
                                          "ValidationError:insufficientDice"}
                ELSE outcome'.result = "AuthorityError"
      /\ store' # store => outcome'.caller = GM
    ]_vars

\* a player's process has submitted a valid move and got the authority error
C8_Witness ==
  /\ outcome.caller # GM
  /\ outcome.op = "moveDice"
  /\ outcome.result = "AuthorityError"
  /\ playerPoolCount + gmPoolCount > 0

\* the users whose submission was accepted
Seeded == {store.seededPlayers[i] : i \in 1..Len(store.seededPlayers)}

C10_SeedIncrementOnly ==
  [][ (outcome'.op = "processSeedResult" /\ outcome'.result = "ok")
      => LET result == outcome'.arg.result
         IN /\ result \in 1..3 =>
                 /\ store'.gmPoolCount = store.gmPoolCount + 1
                 /\ store'.playerPoolCount = store.playerPoolCount
            /\ result \in 4..6 =>
                 /\ store'.playerPoolCount = store.playerPoolCount + 1
                 /\ store'.gmPoolCount = store.gmPoolCount
    ]_vars

\* the pools of a state as moveDice names them
SourcePool(state, direction) ==
  IF direction = "playerToGm" THEN state.playerPoolCount ELSE state.gmPoolCount

TargetPool(state, direction) ==
  IF direction = "playerToGm" THEN state.gmPoolCount ELSE state.playerPoolCount

\* C11: the GM's moveDice(direction, k) with 1 <= k <= source pool, made
\* while override is enabled or the pools sum to the active player count,
\* takes exactly k from the source pool and adds exactly k to the target
\* pool, leaves overrideEnabled, seededPlayers and lastSeededAt as they were
\* and is followed by a stateUpdate broadcast
C11_TransferEffect ==
  [][ (/\ outcome'.op = "moveDice" /\ outcome'.caller = GM
       /\ outcome'.arg.amount >= 1
       /\ outcome'.arg.amount <= SourcePool(store, outcome'.arg.direction)
       /\ \/ store.overrideEnabled
          \/ playerPoolCount + gmPoolCount = activePlayerCount)
      => LET direction == outcome'.arg.direction
             k == outcome'.arg.amount
         IN /\ SourcePool(store', direction) = SourcePool(store, direction) - k
            /\ TargetPool(store', direction) = TargetPool(store, direction) + k
            /\ store'.overrideEnabled = store.overrideEnabled
            /\ store'.seededPlayers = store.seededPlayers
            /\ store'.lastSeededAt = store.lastSeededAt
            /\ "stateUpdate" \in EmittedTypes'
    ]_vars

\* C13: a seed value that is not an integer in 1..6 is refused by the GM's
\* processSeedResult: the call does not succeed and the pool counts,
\* seededPlayers and lastSeededAt stay as they were
C13_SeedValueValidated ==
  [][ (/\ outcome'.op = "processSeedResult" /\ outcome'.caller = GM
       /\ outcome'.arg.result \notin 1..DieSides)
      => /\ outcome'.result # "ok"
         /\ store'.playerPoolCount = store.playerPoolCount
         /\ store'.gmPoolCount = store.gmPoolCount
         /\ store'.seededPlayers = store.seededPlayers
         /\ store'.lastSeededAt = store.lastSeededAt
    ]_vars

\* a reset the GM confirmed has run to its end
ResetDone(o) == o.op = "resetPools" /\ o.caller = GM /\ o.result = "ok"

\* C19 as stated: after a confirmed reset both pool counts are zero, whether
\* override is enabled or not and whatever the number of active players is
C19_ResetToZero ==
  [][ ResetDone(outcome')
      => (store'.playerPoolCount = 0 /\ store'.gmPoolCount = 0) ]_vars

\* C19 amended: a confirmed reset leaves (0, 0) when override is enabled;
\* when override is disabled the zeroed counts are rebalanced by updateState,
\* which leaves the number of connected players in the player pool and zero
\* in the GM pool; overrideEnabled is as it was, and the state is broadcast
C19_ResetCommits ==
  [][ ResetDone(outcome')
      => /\ store'.gmPoolCount = 0
         /\ store'.playerPoolCount =
              IF store.overrideEnabled THEN 0 ELSE getActivePlayerCount(FALSE)
         /\ store'.overrideEnabled = store.overrideEnabled
         /\ "stateUpdate" \in EmittedTypes' ]_vars

\* a confirmed reset with override disabled has left one die per connected
\* player in the player pool
C19_Witness ==
  /\ ResetDone(outcome)
  /\ ~store.overrideEnabled
  /\ store.playerPoolCount = NumUsers
  /\ store.gmPoolCount = 0

\* enforceInvariant has been called on a player's process
NonGmEnforce(o) == o.op = "enforceInvariant" /\ o.caller # GM

\* C20 as stated: enforceInvariant called by a non-GM caller fails with an
\* authority error in every state
C20_NonGmEnforceFails ==
  [][ NonGmEnforce(outcome') => outcome'.result = "AuthorityError" ]_vars

\* C20 amended: enforceInvariant called by a non-GM caller never writes; it
\* fails with the authority error exactly when override is disabled and the
\* pools do not sum to the number of connected players (the case that
\* reaches updateState), and returns the state without an error otherwise
C20_NonGmEnforceNoWrite ==
  [][ NonGmEnforce(outcome')
      => /\ store' = store
         /\ emitted' = <<>>
         /\ outcome'.result =
              IF /\ ~store.overrideEnabled
                 /\ playerPoolCount + gmPoolCount # getActivePlayerCount(FALSE)
                THEN "AuthorityError" ELSE "ok" ]_vars

\* a player's process has called enforceInvariant with override disabled and
\* the pools balanced, and got the state back without an error
C20_Witness ==
  /\ NonGmEnforce(outcome)
  /\ outcome.result = "ok"
  /\ ~store.overrideEnabled
  /\ playerPoolCount + gmPoolCount = NumUsers

\* the GM's handleAugmentRequest(userId, messageId) has succeeded
AugmentDone(o) == o.op = "handleAugmentRequest" /\ o.caller = GM /\ o.result = "ok"

\* the roll is one the requester may augment: theirs, a skill check or a
\* saving throw, and the latest roll of theirs that the GM's process has seen
Eligible(userId, m) ==
  /\ MsgUser(m) = userId
  /\ MsgAugmentable(m)
  /\ playerRollHistory[GM][userId] = m

\* C12: a successful handleAugmentRequest on an eligible roll, with at least
\* one die in the player pool, takes exactly one die from the player pool,
\* adds exactly one to the GM pool, reports the drawn die d in 1..6 and the
\* new total originalTotal + d, records the message id in augmentedMessages
\* and broadcasts the new state
C12_AugmentEffect ==
  [][ (/\ AugmentDone(outcome')
       /\ Eligible(outcome'.arg.userId, outcome'.arg.messageId)
       /\ store.playerPoolCount >= 1)
      => LET m == outcome'.arg.messageId
         IN /\ store'.playerPoolCount = store.playerPoolCount - 1
            /\ store'.gmPoolCount = store.gmPoolCount + 1
            /\ posted'.messageId = m
            /\ posted'.result \in 1..DieSides
            /\ posted'.newTotal = MsgTotal(m) + posted'.result
            /\ m \in augmentedMessages'[GM]
            /\ "stateUpdate" \in EmittedTypes'
    ]_vars

\* canAugment(message) has been evaluated on some process for a message of
\* the chat log
CanAugmentEvaluated(o) == o.op = "canAugment" /\ o.arg.messageId \in messages

\* C14: canAugment(message), evaluated on process c, changes nothing and is
\* true exactly when c is not the GM, c is the author of the message, the
\* roll is classified augmentable, the message id is not in c's
\* augmentedMessages, the message id is c's entry in c's playerRollHistory,
\* and playerPoolCount >= 1
C14_CanAugmentIff ==
  [][ CanAugmentEvaluated(outcome')
      => LET c == outcome'.caller
             m == outcome'.arg.messageId
         IN /\ outcome'.result \in {"true", "false"}
            /\ outcome'.result = "true" <=>
                 (/\ c # GM
                  /\ MsgUser(m) = c
                  /\ MsgAugmentable(m)
                  /\ m \notin augmentedMessages[c]
                  /\ playerRollHistory[c][c] = m
                  /\ store.playerPoolCount >= 1)
            /\ store' = store
            /\ augmentedMessages' = augmentedMessages
            /\ playerRollHistory' = playerRollHistory
            /\ messages' = messages
            /\ augmentPosts' = augmentPosts
            /\ tasks' = tasks
            /\ emitted' = <<>>
    ]_vars

\* a player who has posted two rolls is offered the entry on the second one
C14_Witness ==
  /\ CanAugmentEvaluated(outcome)
  /\ outcome.result = "true"
  /\ outcome.arg.messageId = 2
  /\ 1 \in messages

\* C15: handleAugmentRequest succeeds only for the roll that is the
\* requester's most recent tracked roll when the GM's process handles the
\* request; a request naming an older roll of the requester draws no die
\* and leaves the pools alone
C15_AuthorityChecksRecency ==
  [][ (/\ outcome'.op = "handleAugmentRequest" /\ outcome'.caller = GM
       /\ outcome'.arg.messageId \in messages
       /\ MsgUser(outcome'.arg.messageId) = outcome'.arg.userId
       /\ playerRollHistory[GM][outcome'.arg.userId] # outcome'.arg.messageId)
      => /\ outcome'.result # "ok"
         /\ posted' = NoPost
         /\ store' = store
    ]_vars

\* C16: handleAugmentRequest succeeds only if the requester is the author
\* of the roll and the roll is classified augmentable; a request naming
\* another player's roll, or a roll that is neither a skill check nor a
\* saving throw, draws no die and leaves the pools alone
C16_AuthorityChecksOwnerAndKind ==
  [][ (/\ outcome'.op = "handleAugmentRequest" /\ outcome'.caller = GM
       /\ outcome'.arg.messageId \in messages
       /\ \/ MsgUser(outcome'.arg.messageId) # outcome'.arg.userId
          \/ ~MsgAugmentable(outcome'.arg.messageId))
      => /\ outcome'.result # "ok"
         /\ posted' = NoPost
         /\ store' = store
    ]_vars

\* the conditions of an augmentation that do not hold when player c clicks
\* the entry of its own roll m, each named by the error kind that reports it
ViolatedConditions(c, m) ==
  {kind \in {"insufficientDice", "invalidRoll", "alreadyAugmented", "notMostRecent"} :
     \/ kind = "insufficientDice" /\ store.playerPoolCount < 1
     \/ kind = "invalidRoll" /\ ~MsgAugmentable(m)
     \/ kind = "alreadyAugmented" /\ m \in augmentedMessages[GM]
     \/ kind = "notMostRecent" /\ playerRollHistory[c][c] # m}

\* C17: when a player clicks the entry of one of their rolls and exactly one
\* of the conditions (a die in the player pool, an augmentable roll, a roll
\* not yet augmented, the player's most recent roll) does not hold,
\* processAugment fails with the error kind of that condition and sends no
\* request to the GM
C17_DistinctErrorKinds ==
  [][ (/\ outcome'.op = "processAugment"
       /\ outcome'.caller # GM
       /\ outcome'.arg.messageId \in messages
       /\ MsgUser(outcome'.arg.messageId) = outcome'.caller
       /\ Cardinality(ViolatedConditions(outcome'.caller, outcome'.arg.messageId)) = 1)
      => /\ outcome'.result \in
              ViolatedConditions(outcome'.caller, outcome'.arg.messageId)
         /\ "requestAugment" \notin EmittedTypes'
    ]_vars

\* the GM's process has turned down a player's request: an augmentation
\* with no die in the player pool or for a roll already augmented, or a
\* seed value outside 1..6
Rejected(o, state) ==
  /\ o.caller = GM
  /\ \/ /\ o.op = "handleAugmentRequest"
        /\ o.arg.messageId \in messages
        /\ \/ state.playerPoolCount < 1
           \/ o.arg.messageId \in augmentedMessages[GM]
     \/ /\ o.op = "processSeedResult"
        /\ o.arg.result \notin 1..DieSides

\* C18: when the GM's process rejects a player's request the settings are
\* untouched and something is sent back over the socket for the requester
C18_RejectionReported ==
  [][ Rejected(outcome', store)
      => /\ store' = store
         /\ outcome'.result # "ok"
         /\ emitted' # <<>>
    ]_vars

\* C21: when a player connects or disconnects while override is disabled,
\* the pools are rebalanced with it: once the roster has changed, the pool
\* counts sum to the active player count again
C21_RosterChangeRebalances ==
  [][ (active' # active /\ ~store.overrideEnabled)
      => store'.playerPoolCount + store'.gmPoolCount =
           getActivePlayerCount(requireCharacterOwnership)' ]_vars

\* C22: every update the GM's process commits (the clearing of startSeed, an
\* accepted seed, an augmentation, a move, Roll GM Die, the override toggle,
\* a reset, the enforceInvariant of the ready hook) is followed by a
\* stateUpdate broadcast that carries the committed state
C22_CommitBroadcast ==
  [][ (outcome'.updated /\ outcome'.result = "ok" /\ outcome'.caller = GM)
      => StateUpdate(store') \in {emitted'[i] : i \in 1..Len(emitted')} ]_vars

\* a ritual operation (the start, or an accepted submission) has just left
\* the roster fully seeded, seededPlayers.length >= the active player count,
\* and the ritual is at rest: every connected player has been seeded, so no
\* seedResult is outstanding and no handler is in flight
RitualAtRest ==
  /\ outcome.op \in {"startSeed", "processSeedResult"}
  /\ outcome.caller = GM
  /\ outcome.result = "ok"
  /\ Len(store.seededPlayers) >= activePlayerCount
  /\ \A u \in active : Includes(store.seededPlayers, u)
  /\ \A t \in Tasks : tasks[t].pc = "idle"

\* C23: for every roster size, 0 included, once the roster of a ritual is
\* fully seeded the GM's process broadcasts seedComplete: when the ritual
\* has come to rest with the roster fully seeded, every message delivered
\* and processed, the operation that brought it there has broadcast
\* seedComplete
C23_RitualCompletes == RitualAtRest => "seedComplete" \in EmittedTypes

\* C24: startSeed called by the GM, whatever has been seeded so far, empties
\* seededPlayers, sets lastSeededAt to null, leaves overrideEnabled as it
\* was and broadcasts seedStarted with the current active player count; the
\* submissions accepted before it no longer count: an accepted submission
\* completes the ritual exactly when the players seeded since the last
\* start are as many as the active players
C24_StartClears ==
  [][ /\ (outcome'.op = "startSeed" /\ outcome'.caller = GM)
        => /\ outcome'.result = "ok"
           /\ store'.seededPlayers = <<>>
           /\ store'.lastSeededAt = Null
           /\ store'.overrideEnabled = store.overrideEnabled
           /\ Len(emitted') = 1
           /\ emitted'[1].type = "seedStarted"
           /\ emitted'[1].activePlayers = activePlayerCount
      /\ (/\ outcome'.op = "processSeedResult" /\ outcome'.caller = GM
          /\ outcome'.result = "ok")
        => ("seedComplete" \in EmittedTypes'
              <=> Len(store'.seededPlayers) >= activePlayerCount)
    ]_vars

\* the ritual has been started again with seeded dice in the pools, override
\* enabled, and fewer active players than connected ones
C24_Witness ==
  /\ outcome.op = "startSeed" /\ outcome.result = "ok"
  /\ store.overrideEnabled
  /\ store.seededPlayers = <<>>
  /\ playerPoolCount >= 1 /\ gmPoolCount >= 1
  /\ EmittedTypes = {"seedStarted"}
  /\ emitted[1].activePlayers = 1
  /\ Cardinality(active) = 2

\* no ritual is open: nothing has run since the settings were registered, so
\* no startSeed has been made, or the latest operation has broadcast
\* seedComplete and closed the ritual
NoRitualOpen == outcome.op = "" \/ "seedComplete" \in EmittedTypes

\* C25: a seedResult that reaches the GM's process while no ritual is open,
\* before any start or after seedComplete, changes neither the pool counts
\* nor seededPlayers
C25_SeedOnlyWhileSeeding ==
  [][ (NoRitualOpen /\ outcome'.op = "processSeedResult" /\ outcome'.caller = GM)
      => /\ store'.playerPoolCount = store.playerPoolCount
         /\ store'.gmPoolCount = store.gmPoolCount
         /\ store'.seededPlayers = store.seededPlayers
    ]_vars

\* C26: whatever handlers overlap at their awaits (seeding, moveDice, Roll GM
\* Die, augmentation, override toggle, reset, rebalance), under any roster
\* and either override setting, neither pool count is ever negative
C26_PoolsNonNegative == playerPoolCount >= 0 /\ gmPoolCount >= 0

\* an augmentation has taken the last player die while a moveDice that read
\* one player die on entry is still writing
C26_Witness ==
  /\ outcome.op = "handleAugmentRequest"
  /\ outcome.result = "ok"
  /\ playerPoolCount = 0
  /\ \E t \in Tasks :
       /\ tasks[t].op = "moveDice"
       /\ tasks[t].pc = "write"
       /\ tasks[t].arg.direction = "playerToGm"
       /\ tasks[t].state.playerPoolCount = 1

\* every event received has been handled to its end
AllHandled ==
  /\ \A i \in 1..Len(pending) : pending[i].entered
  /\ \A t \in Tasks : tasks[t].pc = "idle"

\* C27: when the seedResult messages in flight at the GM's process all come
\* from the same participant, then after they are handled the participant is
\* recorded once and (override on, so that no balance touches the pools)
\* one die has been added to the empty pools
C27_ConcurrentDuplicateSeedOnce ==
  (/\ AllHandled
   /\ \A i, j \in 1..Len(pending) : pending[i].arg.userId = pending[j].arg.userId)
  => /\ Len(store.seededPlayers) = 1
     /\ store.overrideEnabled => playerPoolCount + gmPoolCount = 1

\* the world the ritual began in: the registered defaults, with the override
\* setting that no seeding handler writes
RitualBegan ==
  [World EXCEPT !.store = [DefaultState EXCEPT !.overrideEnabled = store.overrideEnabled]]

\* C28: when the seedResult messages in flight at the GM's process come from
\* distinct participants, then after they are handled the settings are what
\* handling them one after the other in receipt order leaves
C28_NoLostSeed ==
  (/\ AllHandled
   /\ \A i, j \in 1..Len(pending) :
        i # j => pending[i].arg.userId # pending[j].arg.userId)
  => store = Serially(RitualBegan, pending).store

\* C29: while the only handler that has been entered is suspended inside its
\* updateState, whoever reads the settings sees the record either as that
\* handler found it or as the whole update leaves it, never in between
C29_AtomicUpdate ==
  \A t \in Tasks :
    (/\ tasks[t].pc = "write"
     /\ Cardinality({i \in 1..Len(pending) : pending[i].entered}) = 1)
    => store \in {tasks[t].state, tasks[t].newState}

\* the augmentation results posted for the rolls up to m
RECURSIVE PostsUpTo(_)
PostsUpTo(m) == IF m = 0 THEN 0 ELSE augmentPosts[m] + PostsUpTo(m - 1)

\* C30: with override on, one die in the player pool and only augmentation
\* requests for distinct rolls in flight, once all are handled the number of
\* augmentations that drew a die and posted a result is the number of dice
\* the player pool lost; two requests never both succeed on the one die
C30_OwnDie ==
  AllHandled => PostsUpTo(2 * NumUsers) = 1 - playerPoolCount

\* C31: with override on and only moveDice, Roll GM Die and augmentation in
\* flight, once all of them have finished the pools hold together the
\* NumUsers dice they held before
C31_TransfersConserve ==
  AllHandled => playerPoolCount + gmPoolCount = NumUsers

\* the players the active player count counts
Counted(u) == u \in active /\ (requireCharacterOwnership => u \in owners)

\* C32: whenever seedComplete is broadcast, every player that counts as
\* active is in seededPlayers
C32_CompleteMeansAllSeeded ==
  "seedComplete" \in EmittedTypes
    => \A u \in Users : Counted(u) => Includes(store.seededPlayers, u)

\* C33: with requireCharacterOwnership set, the total that an update or
\* enforceInvariant balances the pools to (override off) is the number of
\* connected players who own an actor, the count seedStarted carries
C33_BalanceCountsOwners ==
  (/\ requireCharacterOwnership
   /\ outcome.result = "ok"
   /\ outcome.updated \/ outcome.op = "enforceInvariant"
   /\ ~store.overrideEnabled)
  => playerPoolCount + gmPoolCount = getActivePlayerCount(TRUE)

\* C34: the augmentation result posted for a roll reports the new total
\* originalTotal + die, for every original total, 0 included (every roll of
\* the model has a total that message.rolls[0].total resolves)
C34_NewTotal ==
  posted.messageId # 0
    => posted.newTotal = MsgTotal(posted.messageId) + posted.result

\* the last roll message of user u among the messages msgs (ids are handed
\* out in the order of creation), 0 if there is none
LastRoll(msgs, u) ==
  LET own == {m \in msgs : MsgUser(m) = u}
  IN IF own = {} THEN 0 ELSE CHOOSE m \in own : \A k \in own : k <= m

\* C35: on every process playerRollHistory holds, per player, the id of that
\* player's last roll message; a new roll changes only its author's entry;
\* and canAugment is false for a roll that a later roll of the same player
\* has followed
C35_LatestRollOnly ==
  [][ /\ \A p \in Procs, u \in Users :
           playerRollHistory'[p][u] = LastRoll(messages', u)
      /\ \A m \in messages' \ messages, p \in Procs, u \in Users :
           MsgUser(m) # u => playerRollHistory'[p][u] = playerRollHistory[p][u]
      /\ (/\ CanAugmentEvaluated(outcome')
          /\ \E later \in messages :
               /\ later > outcome'.arg.messageId
               /\ MsgUser(later) = MsgUser(outcome'.arg.messageId))
         => outcome'.result = "false"
    ]_vars

\* the author of two rolls opens the menu of the first one, a skill check
\* that has not been augmented, with a die in the player pool: the entry is
\* not offered
C35_Witness ==
  /\ CanAugmentEvaluated(outcome)
  /\ outcome.caller = MsgUser(1)
  /\ outcome.arg.messageId = 1
  /\ 2 \in messages
  /\ MsgUser(2) = MsgUser(1)
  /\ 1 \notin augmentedMessages[outcome.caller]
  /\ store.playerPoolCount >= 1
  /\ outcome.result = "false"

\* C36: once handleAugmentRequest has succeeded for a message on the GM's
\* process, canAugment is false for that message on every process, the
\* requester's own included
C36_AugmentedNotOffered ==
  [][ (/\ CanAugmentEvaluated(outcome')
       /\ outcome'.arg.messageId \in augmentedMessages[GM])
      => outcome'.result = "false" ]_vars

\* C37: when the GM restarts the ritual, the dialog of every connected
\* player who had submitted and was waiting shows its controls again, so
\* that the player can submit for the restarted ritual
C37_RestartResetsDialogs ==
  [][ (outcome'.op = "startSeed" /\ outcome'.result = "ok")
      => \A u \in active : activeModals[u] = "waiting" => activeModals'[u] = "open"
    ]_vars

\* C38: Roll GM Die, pressed by the GM while the GM pool holds at least one
\* die and override is enabled or the pools sum to the active player count,
\* moves exactly one die from the GM pool to the player pool and broadcasts
\* the new state; pressed while the GM pool is empty it draws no die and
\* changes nothing
C38_RollGmDieEffect ==
  [][ (outcome'.op = "rollGmDie" /\ outcome'.caller = GM)
      => IF store.gmPoolCount >= 1
           THEN (\/ store.overrideEnabled
                 \/ playerPoolCount + gmPoolCount = activePlayerCount)
                => /\ store'.gmPoolCount = store.gmPoolCount - 1
                   /\ store'.playerPoolCount = store.playerPoolCount + 1
                   /\ posted'.result \in DieResults
                   /\ "stateUpdate" \in EmittedTypes'
           ELSE /\ store' = store
                /\ posted' = NoPost
                /\ emitted' = <<>>
    ]_vars

\* C39: seededPlayers is a set: in every reachable state, whatever startSeed
\* and seedResult events the GM's process has received and however their
\* handlers interleave, the persisted seededPlayers array holds no
\* participant id twice
C39_SeededPlayersIsSet ==
  \A i, j \in 1..Len(store.seededPlayers) :
    i # j => store.seededPlayers[i] # store.seededPlayers[j]

\* two submissions of the same participant are in flight at once and the
\* participant has been written to seededPlayers
C39_Witness ==
  \E s, t \in Tasks :
    /\ s # t
    /\ tasks[s].op = "processSeedResult" /\ tasks[s].pc # "idle"
    /\ tasks[t].op = "processSeedResult" /\ tasks[t].pc # "idle"
    /\ tasks[s].arg.userId = tasks[t].arg.userId
    /\ \E i \in 1..Len(store.seededPlayers) :
         store.seededPlayers[i] = tasks[s].arg.userId
    /\ \E i \in 1..Len(pending) : pending[i].op = "startSeed"

====
